---- MODULE Spec2Model ----
(***************************************************************************)
(* The Java gateway of the supply-chain dashboard: the JWT authentication  *)
(* filter (JWTAuthenticationFilter.doFilterInternal), the authorization    *)
(* rules of SecurityConfig.securityFilterChain and the reverse proxy       *)
(* ProxyController.proxyToFastAPI, as one request travelling through them. *)
(*                                                                         *)
(* Text is modelled at the granularity the code inspects it:               *)
(*  - a header value is the pair (head, rest): head is the text up to and  *)
(*    including the first space (the whole text when it has no space),     *)
(*    rest is what follows.  "Bearer " holds its only space at index 7, so *)
(*    startsWith("Bearer ") is head = "Bearer " and substring(7) is rest;  *)
(*  - a role claim is a sequence of characters;                            *)
(*  - a path or a query string is a sequence of chunks; a chunk that holds *)
(*    a "/" begins with it and holds no other, so an occurrence of         *)
(*    "/api/server" in the text is an occurrence of the two chunks "/api", *)
(*    "/server".                                                           *)
(*                                                                         *)
(* result is what the forwarder's Mono ends with, response what the caller *)
(* receives once the asynchronous dispatch of that result has gone through *)
(* the security filter chain again.  stdout holds the lines printed for    *)
(* the request.  served remembers a forwarded request while the same       *)
(* request is sent a second time, upstreamCalls counts the upstream calls  *)
(* of the two.                                                             *)
(***************************************************************************)
EXTENDS Integers, Sequences, FiniteSets, TLC

VARIABLES pc, request, authentication, chainCalls, escaped, outbound, upstream, result,
          response, stdout, upstreamCalls, served,
          threads, service, cart, browser

vars == <<pc, request, authentication, chainCalls, escaped, outbound, upstream, result,
          response, stdout, upstreamCalls, served, threads, service, cart, browser>>

\* The state of one request travelling through the gateway.
gateway == <<pc, request, authentication, chainCalls, escaped, outbound, upstream, result,
             response, stdout, upstreamCalls, served>>

\* The state the travelling request does not touch: the worker threads serving
\* concurrent requests, the prediction service, and the browser's cart and session.
outside == <<threads, service, cart, browser>>

(***************************************************************************)
(* Bounds of the model.                                                    *)
(***************************************************************************)
MaxRoleLen == 2
MaxSegs == 2
MaxWorkers == 2
MaxRecords == 2
MaxProducts == 2
MaxQuantity == 3

null == "<null>"

(***************************************************************************)
(* Tokens.  A compact JWS is header.payload.signature; the signature is an *)
(* ideal MAC: it records the key and the payload it was computed over.     *)
(***************************************************************************)
secret == "jwt.secret"
OtherKey == "other.key"

RoleChars == {"A", "d", " "}

RoleStrings == UNION {[1..n -> RoleChars] : n \in 0..MaxRoleLen}

NoRole == [type |-> "absent", text |-> <<>>]
RoleClaims == {NoRole, [type |-> "Integer", text |-> <<>>]}
                \cup {[type |-> "String", text |-> s] : s \in RoleStrings}

Payloads == [sub : {null, "alice"}, role : RoleClaims, expired : BOOLEAN]

Mac(key, payload) == [key |-> key, payload |-> payload]

AdminPayload == [sub |-> "alice", role |-> [type |-> "String", text |-> <<"A", "d">>],
                 expired |-> FALSE]
NoPayload == [sub |-> null, role |-> NoRole, expired |-> FALSE]

\* "" (nothing after "Bearer "), text that is no JWT, and a JWT without signature.
EmptyText == [form |-> "empty"]
Garbage == [form |-> "garbage"]
Unsigned == [form |-> "unsigned", payload |-> AdminPayload]

Jws(payload, sig) == [form |-> "jws", payload |-> payload, sig |-> sig]

SignedTokens == {Jws(p, Mac(secret, p)) : p \in Payloads}
ForgedTokens == {Jws(p, Mac(OtherKey, p)) : p \in Payloads}
TamperedTokens == {Jws(p, Mac(secret, NoPayload)) : p \in Payloads \ {NoPayload}}

Tokens == SignedTokens \cup ForgedTokens \cup TamperedTokens \cup {EmptyText, Garbage, Unsigned}

AdminToken == Jws(AdminPayload, Mac(secret, AdminPayload))

(***************************************************************************)
(* Header values.                                                          *)
(***************************************************************************)
NullHeader == [head |-> null]

Plain(text) == [head |-> text, rest |-> EmptyText]

Bearer(token) == [head |-> "Bearer ", rest |-> token]

AuthHeaders == {NullHeader, Plain("Bearer"), Plain("")}
                 \cup {Bearer(t) : t \in Tokens}
                 \cup {[head |-> h, rest |-> AdminToken] : h \in {"bearer ", "Basic ", "Token "}}

startsWith(value, prefix) == value.head = prefix

(***************************************************************************)
(* String operations of the filter.                                        *)
(***************************************************************************)
toUpperCase(method) == IF method = "options" THEN "OPTIONS" ELSE method

equalsIgnoreCase(a, b) == toUpperCase(a) = toUpperCase(b)

toLowerCase(s) ==
    [i \in DOMAIN s |-> CASE s[i] = "A" -> "a" [] s[i] = "D" -> "d" [] OTHER -> s[i]]

\* String.trim(): drops the leading and the trailing characters <= ' '.
trim(s) ==
    LET blank(i) == s[i] = " "
        st == IF \A i \in DOMAIN s : blank(i) THEN Len(s) + 1
              ELSE CHOOSE i \in DOMAIN s : ~blank(i) /\ \A j \in 1..(i - 1) : blank(j)
        en == IF \A i \in DOMAIN s : blank(i) THEN Len(s)
              ELSE CHOOSE i \in DOMAIN s : ~blank(i) /\ \A j \in (i + 1)..Len(s) : blank(j)
    IN  SubSeq(s, st, en)

\* A SimpleGrantedAuthority that accepts every role, the empty one included.
hasTextUnchecked(s) == TRUE

\* StringUtils.hasText, the assertion in SimpleGrantedAuthority's constructor.
hasText(s) == \E i \in DOMAIN s : s[i] # " "

(***************************************************************************)
(* The security context of the request.                                    *)
(***************************************************************************)
NoAuthentication ==
    [present |-> FALSE, principal |-> null, authorities |-> <<>>, authenticated |-> FALSE]

\* The three-argument constructor: a trusted (authenticated) token.
UsernamePasswordAuthenticationToken(principal, authorities) ==
    [present |-> TRUE, principal |-> principal, authorities |-> authorities,
     authenticated |-> TRUE]

(***************************************************************************)
(* Jwts.parser().verifyWith(key).build().parseSignedClaims(token): what it *)
(* throws ("none" when it returns) and the claims it returns.              *)
(***************************************************************************)
Threw(exception) == [thrown |-> exception, claims |-> NoPayload]

\* parseSignedClaims that decodes the claims and checks no signature.
parseWithoutVerifying(token, key) ==
    CASE token.form = "empty" -> Threw("IllegalArgumentException")
      [] token.form = "garbage" -> Threw("MalformedJwtException")
      [] token.form = "unsigned" -> Threw("UnsupportedJwtException")
      [] OTHER ->
            IF token.payload.expired THEN Threw("ExpiredJwtException")
            ELSE [thrown |-> "none", claims |-> token.payload]

parseSignedClaims(token, key) ==
    CASE token.form = "empty" -> Threw("IllegalArgumentException")
      [] token.form = "garbage" -> Threw("MalformedJwtException")
      [] token.form = "unsigned" -> Threw("UnsupportedJwtException")
      [] OTHER ->
            IF token.sig # Mac(key, token.payload) THEN Threw("SignatureException")
            ELSE IF token.payload.expired THEN Threw("ExpiredJwtException")
            ELSE [thrown |-> "none", claims |-> token.payload]

\* TryBody with the role used as it stands in the token, not trimmed.
TryBodyNoTrim(token) ==
    LET parsed == parseSignedClaims(token, secret)
        role == parsed.claims.role
        name == toLowerCase(role.text)
    IN  CASE parsed.thrown # "none" ->
                [thrown |-> parsed.thrown, authentication |-> NoAuthentication]
          [] parsed.thrown = "none" /\ role.type = "Integer" ->
                [thrown |-> "RequiredTypeException", authentication |-> NoAuthentication]
          [] parsed.thrown = "none" /\ role.type = "absent" ->
                [thrown |-> "none", authentication |-> NoAuthentication]
          [] OTHER ->
                IF ~hasText(name)
                THEN [thrown |-> "IllegalArgumentException",
                      authentication |-> NoAuthentication]
                ELSE [thrown |-> "none",
                      authentication |->
                          UsernamePasswordAuthenticationToken(parsed.claims.sub, <<name>>)]

\* TryBody publishing the subject before it looks at the role: a token without
\* a role leaves an untrusted authentication (the two-argument constructor).
TryBodyPublishesFirst(token) ==
    LET parsed == parseSignedClaims(token, secret)
        role == parsed.claims.role
        name == trim(toLowerCase(role.text))
        untrusted == [present |-> TRUE, principal |-> parsed.claims.sub,
                      authorities |-> <<>>, authenticated |-> FALSE]
    IN  CASE parsed.thrown # "none" ->
                [thrown |-> parsed.thrown, authentication |-> NoAuthentication]
          [] parsed.thrown = "none" /\ role.type = "Integer" ->
                [thrown |-> "RequiredTypeException", authentication |-> untrusted]
          [] parsed.thrown = "none" /\ role.type = "absent" ->
                [thrown |-> "none", authentication |-> untrusted]
          [] OTHER ->
                IF ~hasText(name)
                THEN [thrown |-> "IllegalArgumentException", authentication |-> untrusted]
                ELSE [thrown |-> "none",
                      authentication |->
                          UsernamePasswordAuthenticationToken(parsed.claims.sub, <<name>>)]

\* Lines 53-96: the body of the try block; the exception it ends with ("none"
\* when it completes) and the authentication it has published by then.
TryBody(token) ==
    LET parsed == parseSignedClaims(token, secret)
        role == parsed.claims.role
        name == trim(toLowerCase(role.text))
    IN  CASE parsed.thrown # "none" ->
                [thrown |-> parsed.thrown, authentication |-> NoAuthentication]
          [] parsed.thrown = "none" /\ role.type = "Integer" ->
                [thrown |-> "RequiredTypeException", authentication |-> NoAuthentication]
          [] parsed.thrown = "none" /\ role.type = "absent" ->
                [thrown |-> "none", authentication |-> NoAuthentication]
          [] OTHER ->
                IF ~hasText(name)
                THEN [thrown |-> "IllegalArgumentException",
                      authentication |-> NoAuthentication]
                ELSE [thrown |-> "none",
                      authentication |->
                          UsernamePasswordAuthenticationToken(parsed.claims.sub, <<name>>)]

\* Line 98: catch (Exception e).  Every exception above is a java.lang.Exception.
JwtExceptions ==
    {"MalformedJwtException", "UnsupportedJwtException", "SignatureException",
     "ExpiredJwtException", "RequiredTypeException"}

\* catch (JwtException e) in place of catch (Exception e).
CaughtJwtExceptionOnly(exception) == exception \in JwtExceptions

Caught(exception) == exception \in JwtExceptions \cup {"IllegalArgumentException"}

\* Lines 51, 67, 78, 87 and 100: the System.out.println calls, in order.
Printed(token) ==
    LET parsed == parseSignedClaims(token, secret)
        end == TryBody(token)
    IN  <<[line |-> 51, text |-> "This is a Token", token |-> token]>>
        \o (IF parsed.thrown = "none"
            THEN <<[line |-> 67, username |-> parsed.claims.sub]>> ELSE <<>>)
        \o (IF end.authentication.present
            THEN <<[line |-> 78, authorities |-> end.authentication.authorities],
                   [line |-> 87, authentication |-> end.authentication]>>
            ELSE <<>>)
        \o (IF end.thrown # "none"
            THEN <<[line |-> 100, text |-> "JWT validation failed: ", message |-> end.thrown]>>
            ELSE <<>>)

\* JWTAuthenticationFilter extends OncePerRequestFilter and overrides neither
\* shouldNotFilterAsyncDispatch nor shouldNotFilterErrorDispatch.
\* The filter with shouldNotFilterAsyncDispatch() overridden to return false.
filtersAsyncDispatch == FALSE

shouldNotFilterAsyncDispatch == TRUE

\* Bypass without the pre-flight test of line 36.
BypassWithoutOptions(req) ==
    req.headers["Authorization"] = NullHeader
        \/ ~startsWith(req.headers["Authorization"], "Bearer ")

\* Lines 36-45: the requests the filter passes on without looking at a token.
Bypass(req) ==
    \/ equalsIgnoreCase("OPTIONS", req.method)
    \/ req.headers["Authorization"] = NullHeader
    \/ ~startsWith(req.headers["Authorization"], "Bearer ")

(***************************************************************************)
(* Paths, query strings and bodies.                                        *)
(***************************************************************************)
PathChunks == {"/api", "/server", "/users", "/login"}

ServerPrefix == <<"/api", "/server">>
LoginPath == <<"/api", "/server", "/users", "/login">>
OrdersPath == <<"/api", "/server", "/orders">>
HistoryPath == <<"/api", "/predictions", "/history">>
OrdersSlashPath == <<"/api", "/server", "/orders", "/">>
ErrorPath == <<"/error">>

IsPrefix(p, s) == Len(p) <= Len(s) /\ SubSeq(s, 1, Len(p)) = p

\* The inbound paths under /api/server/.
ProxiedPaths ==
    {ServerPrefix \o rest : rest \in UNION {[1..n -> PathChunks] : n \in 1..MaxSegs}}

NoQuery == [present |-> FALSE, text |-> <<>>]
Queries ==
    {NoQuery} \cup {[present |-> TRUE, text |-> t] :
                        t \in {<<"x=1">>, <<"q=a", "%20", "b">>, <<"next=", "/api", "/server">>}}

\* 16 * 1024 * 1024: the codec limit set by WebClientConfig.webClientBuilder.
maxInMemorySize == 16777216

EmptyBody == [size |-> 0, bytes |-> "none"]
JsonBody == [size |-> 2, bytes |-> "json"]
PartsBody == [size |-> 3, bytes |-> "parts"]
Bodies ==
    {EmptyBody, JsonBody,
     [size |-> maxInMemorySize, bytes |-> "large"],
     [size |-> maxInMemorySize + 1, bytes |-> "oversized"]}

(***************************************************************************)
(* Requests.                                                               *)
(***************************************************************************)
Methods == {"GET", "POST", "OPTIONS", "options"}

OtherHeaderNames == {"Cookie", "X-Forwarded-For"}
HeaderNames == {"Authorization", "Content-Type"} \cup OtherHeaderNames

\* request.getHeader(name) for every name: NullHeader when the header is absent.
Headers(authorization, contentType, others) ==
    [name \in HeaderNames |->
        CASE name = "Authorization" -> authorization
          [] name = "Content-Type" -> contentType
          [] OTHER -> IF name \in others THEN Plain("v") ELSE NullHeader]

Request(method, path, query, headers, body) ==
    [method |-> method, path |-> path, query |-> query, headers |-> headers, body |-> body]

\* Every credential, on the login route and on a protected route.
CredentialRequests ==
    {Request(m, p, NoQuery, Headers(a, NullHeader, {}), EmptyBody) :
        m \in Methods, p \in {LoginPath, OrdersPath}, a \in AuthHeaders}

\* Every route, query string, header set and body, with three credentials.
RoutedRequests ==
    {Request(m, p, q, Headers(a, c, o), b) :
        m \in {"GET", "POST"},
        p \in ProxiedPaths \cup {ServerPrefix, HistoryPath},
        q \in Queries,
        a \in {NullHeader, Bearer(AdminToken), Bearer(Garbage)},
        c \in {NullHeader, Plain("application/json")},
        o \in SUBSET OtherHeaderNames,
        b \in {EmptyBody, JsonBody}}

MultipartFormData == Plain("multipart/form-data;boundary=b")

\* The scenarios of the gateway: the orders listing, the framework's error
\* page, and uploads (a form with parts, raw bytes) to the login and orders routes.
ScenarioRequests ==
    {Request("GET", p, NoQuery, Headers(a, NullHeader, {}), EmptyBody) :
        p \in {OrdersSlashPath, ErrorPath},
        a \in {NullHeader, Bearer(AdminToken), Bearer(Garbage)}}
    \cup
    {Request(m, p, NoQuery, Headers(a, c, {}), PartsBody) :
        m \in {"POST", "PUT"},
        p \in {LoginPath, OrdersPath},
        a \in {NullHeader, Bearer(AdminToken)},
        c \in {MultipartFormData, Plain("application/octet-stream")}}

Requests == CredentialRequests \cup RoutedRequests \cup ScenarioRequests

NoRequest == Request("GET", <<>>, NoQuery, Headers(NullHeader, NullHeader, {}), EmptyBody)

(***************************************************************************)
(* ProxyController.proxyToFastAPI: the upstream call it builds.            *)
(***************************************************************************)
\* String.replace(target, replacement): every occurrence, left to right.
RECURSIVE replace(_, _, _)
replace(s, target, replacement) ==
    IF Len(s) < Len(target) \/ Len(s) = 0 THEN s
    ELSE IF SubSeq(s, 1, Len(target)) = target
         THEN replacement \o replace(SubSeq(s, Len(target) + 1, Len(s)), target, replacement)
         ELSE <<Head(s)>> \o replace(Tail(s), target, replacement)

\* WebClient.uri(String) takes a URI template and encodes it: a "%" of the
\* text is not a legal character of a template and becomes "%25".
encodeTemplate(s) == [i \in DOMAIN s |-> IF s[i] = "%20" THEN "%2520" ELSE s[i]]

ForwardedHeaderNames == {"Authorization", "Content-Type"}

\* StandardServletMultipartResolver.isMultipart: the content type starts with "multipart/".
isMultipart(req) == req.headers["Content-Type"] = MultipartFormData

\* Line 105: request.getInputStream().readAllBytes() reads what is left of the
\* stream.  The gateway resolves multipart requests (PredictionController takes a
\* MultipartFile): the dispatcher has parsed the parts of a multipart request,
\* and with them read the stream to its end, before it invokes the handler.
readAllBytes(req) == IF isMultipart(req) THEN EmptyBody ELSE req.body

StandardMethods == {"GET", "HEAD", "POST", "PUT", "PATCH", "DELETE", "OPTIONS", "TRACE"}

\* fastApiClient.get() in place of method(HttpMethod.valueOf(...)).
valueOfGet(method) == [name |-> "GET", constant |-> TRUE]

\* HttpMethod.valueOf(String): the constant of that name, or a new HttpMethod
\* holding the name as it is.
valueOf(method) == [name |-> method, constant |-> method \in StandardMethods]

\* Every inbound header copied, as Collections.list(request.getHeaderNames()) would.
AllHeadersCopied(req) ==
    [name \in {n \in HeaderNames : req.headers[n] # NullHeader} |-> <<req.headers[name]>>]

\* Lines 98-100 and 104: HttpHeaders.add(name, request.getHeader(name)).
OutboundHeaders(req) == [name \in ForwardedHeaderNames |-> <<req.headers[name]>>]

\* A connector that writes a header for every entry, a null value included.
writeNullValues(headers) == headers

\* Lines 98-100 leave the list [null] under the name of a header the request
\* does not have; the connector writes the values of an entry up to the first
\* null, so such an entry puts no header on the wire.
writeHeaders(headers) ==
    [name \in {n \in DOMAIN headers : headers[n][1] # NullHeader} |-> headers[name]]

UpstreamCall(req) ==
    LET path == replace(req.path, <<"/api", "/server">>, <<"/api">>)
        query == IF req.query.present THEN <<"?">> \o req.query.text ELSE <<>>
    IN  [method |-> valueOf(req.method).name,
         uri |-> encodeTemplate(path \o query),
         headers |-> writeHeaders(OutboundHeaders(req)),
         body |-> readAllBytes(req)]

NoCall == [method |-> null, uri |-> <<>>, headers |-> <<>>, body |-> EmptyBody]

(***************************************************************************)
(* The upstream's answers and what retrieve().toEntity(byte[].class) with  *)
(* onErrorResume(WebClientResponseException.class, ...) makes of them.     *)
(***************************************************************************)
Statuses == {200, 204, 302, 404, 500}

Unreachable == [kind |-> "unreachable", status |-> 0, body |-> EmptyBody]
NoAnswer == [kind |-> "none", status |-> 0, body |-> EmptyBody]
Answers == {[kind |-> "response", status |-> st, body |-> b] : st \in Statuses, b \in Bodies}

Entity(status, body) == [kind |-> "entity", status |-> status, body |-> body]
NoResult == [kind |-> "none", status |-> 0, body |-> EmptyBody]
Failed(status) == [kind |-> "error", status |-> status, body |-> EmptyBody]

\* The body a codec limited to maxInMemorySize reads: nothing past the limit.
Buffered(body) == IF body.size > maxInMemorySize THEN EmptyBody ELSE body

\* The signal of the Mono before onErrorResume.
toEntity(answer) ==
    CASE answer.kind = "unreachable" ->
            [signal |-> "WebClientRequestException", status |-> 0, body |-> EmptyBody]
      [] answer.kind = "response" /\ answer.status >= 400 ->
            [signal |-> "WebClientResponseException", status |-> answer.status,
             body |-> Buffered(answer.body)]
      [] answer.kind = "response" /\ answer.status < 400
            /\ answer.body.size > maxInMemorySize ->
            [signal |-> "WebClientResponseException", status |-> answer.status,
             body |-> EmptyBody]
      [] OTHER -> [signal |-> "next", status |-> answer.status, body |-> answer.body]

ProxyResult(answer) ==
    LET mono == toEntity(answer)
    IN  CASE mono.signal = "next" -> Entity(mono.status, mono.body)
          [] mono.signal = "WebClientResponseException" -> Entity(mono.status, mono.body)
          [] OTHER -> Failed(500)

(***************************************************************************)
(* SecurityConfig.securityFilterChain: the authorization rules.            *)
(***************************************************************************)
\* The rules with line 81 in force: "/api/server/**" open to everybody.
PermittedServerRoutes(req, auth) ==
    \/ req.method = "OPTIONS"
    \/ req.path = LoginPath
    \/ req.path = <<"/error">>
    \/ IsPrefix(<<"/api", "/predictions">>, req.path)
    \/ IsPrefix(<<"/api", "/server">>, req.path)
    \/ auth.present /\ auth.authenticated

\* anyRequest().permitAll() in place of anyRequest().authenticated().
PermittedAnyRequest(req, auth) == TRUE

\* The rules without the login route of line 78.
PermittedWithoutLogin(req, auth) ==
    \/ req.method = "OPTIONS"
    \/ req.path = <<"/error">>
    \/ IsPrefix(<<"/api", "/predictions">>, req.path)
    \/ auth.present /\ auth.authenticated

Permitted(req, auth) ==
    \/ req.method = "OPTIONS"
    \/ req.path = LoginPath
    \/ req.path = <<"/error">>
    \/ IsPrefix(<<"/api", "/predictions">>, req.path)
    \/ auth.present /\ auth.authenticated

(***************************************************************************)
(* The request, step by step.                                              *)
(***************************************************************************)
NoServed == [request |-> NoRequest, call |-> NoCall]

(***************************************************************************)
(* Concurrent requests: each is served by a worker thread of the servlet   *)
(* container, and SecurityContextHolder keeps one context per thread.      *)
(***************************************************************************)
Workers == 1..MaxWorkers

UserPayload == [sub |-> null, role |-> [type |-> "String", text |-> <<"d">>], expired |-> FALSE]
UserToken == Jws(UserPayload, Mac(secret, UserPayload))

\* Requests with different credentials, to a protected route and to the login route.
WorkerRequests ==
    {Request("GET", p, NoQuery, Headers(a, NullHeader, {}), EmptyBody) :
        p \in {OrdersPath, LoginPath},
        a \in {NullHeader, Bearer(AdminToken), Bearer(UserToken), Bearer(Garbage)}}

IdleWorker == [pc |-> "idle", request |-> NoRequest, context |-> NoAuthentication,
               outcome |-> "none"]

\* Lines 36-102 for one request: the authentication the filter leaves in the
\* context it is given.
doFilterInternal(req, context) ==
    IF Bypass(req) THEN context
    ELSE LET end == TryBody(req.headers["Authorization"].rest)
         IN  IF end.thrown = "none" \/ Caught(end.thrown)
             THEN (IF end.authentication.present THEN end.authentication ELSE context)
             ELSE context

\* A worker thread takes a request; the context of the thread is empty.
Accept(w) ==
    /\ threads[w].pc = "idle"
    /\ \E req \in WorkerRequests :
          threads' = [threads EXCEPT ![w] = [@ EXCEPT !.pc = "filter", !.request = req]]
    /\ UNCHANGED <<gateway, service, cart, browser>>

\* A filter that keeps the authentication in one holder for all threads
\* (SecurityContextHolder.MODE_GLOBAL, or a field of the filter).
WorkerFilterShared(w) ==
    /\ threads[w].pc = "filter"
    /\ LET auth == doFilterInternal(threads[w].request, threads[w].context)
       IN  threads' = [v \in Workers |->
                          IF v = w THEN [threads[v] EXCEPT !.pc = "authorize", !.context = auth]
                          ELSE [threads[v] EXCEPT !.context = auth]]
    /\ UNCHANGED <<gateway, service, cart, browser>>

\* Line 90: SecurityContextHolder.getContext().setAuthentication(authentication)
\* writes the context of the calling thread.
WorkerFilter(w) ==
    /\ threads[w].pc = "filter"
    /\ threads' = [threads EXCEPT ![w] =
                      [@ EXCEPT !.pc = "authorize",
                                !.context = doFilterInternal(threads[w].request, @)]]
    /\ UNCHANGED <<gateway, service, cart, browser>>

\* The authorization rules read the context of the calling thread.
WorkerAuthorize(w) ==
    /\ threads[w].pc = "authorize"
    /\ threads' = [threads EXCEPT ![w] =
                      [@ EXCEPT !.pc = "done",
                                !.outcome = IF Permitted(threads[w].request, threads[w].context)
                                            THEN "permit" ELSE "deny"]]
    /\ UNCHANGED <<gateway, service, cart, browser>>

\* The request ends: the filter chain clears the context of the thread.
WorkerRelease(w) ==
    /\ threads[w].pc = "done"
    /\ threads' = [threads EXCEPT ![w] = IdleWorker]
    /\ UNCHANGED <<gateway, service, cart, browser>>

NextConcurrent ==
    \E w \in Workers :
        \/ Accept(w)
        \/ WorkerFilter(w)
        \/ WorkerAuthorize(w)
        \/ WorkerRelease(w)

(***************************************************************************)
(* PredictionService.getPredictionFromPython and the history listing of    *)
(* PredictionController.                                                   *)
(***************************************************************************)
Questions == {"q1", "q2"}

NotEmitted == [kind |-> "none", body |-> EmptyBody]

IdleService == [pc |-> "idle", questions |-> null, answer |-> NoAnswer, records |-> <<>>,
                saved |-> 0, emitted |-> NotEmitted, listed |-> <<>>]

\* Lines 33-34: retrieve().bodyToMono(String.class).  An error status, an
\* unreachable service and a body over the codec limit end the Mono with an
\* error; an answer without a body completes it with no value.
bodyToMono(answer) ==
    CASE answer.kind = "unreachable" -> [signal |-> "error", body |-> EmptyBody]
      [] answer.kind = "response" /\ answer.status >= 400 ->
            [signal |-> "error", body |-> EmptyBody]
      [] answer.kind = "response" /\ answer.status < 400
            /\ answer.body.size > maxInMemorySize ->
            [signal |-> "error", body |-> EmptyBody]
      [] answer.kind = "response" /\ answer.status < 400 /\ answer.body.size = 0 ->
            [signal |-> "complete", body |-> EmptyBody]
      [] OTHER -> [signal |-> "next", body |-> answer.body]

\* Lines 24-32: the multipart call to the AI service is issued.
getPredictionFromPython ==
    /\ service.pc = "idle"
    /\ Len(service.records) < MaxRecords
    /\ \E q \in Questions :
          service' = [service EXCEPT !.pc = "waiting", !.questions = q]
    /\ UNCHANGED <<gateway, threads, cart, browser>>

\* The AI service answers, or cannot be reached: flatMap runs on a value only.
ServiceAnswers ==
    /\ service.pc = "waiting"
    /\ \E answer \in Answers \cup {Unreachable} :
          LET mono == bodyToMono(answer)
          IN  service' =
                 [service EXCEPT
                    !.answer = answer,
                    !.pc = IF mono.signal = "next" THEN "flatMap" ELSE "done",
                    !.emitted = CASE mono.signal = "next" -> NotEmitted
                                  [] mono.signal = "complete" ->
                                        [kind |-> "empty", body |-> EmptyBody]
                                  [] OTHER -> [kind |-> "error", body |-> EmptyBody]]
    /\ UNCHANGED <<gateway, threads, cart, browser>>

\* A flatMap that hands the body on and saves nothing.
flatMapWithoutSave ==
    /\ service.pc = "flatMap"
    /\ service' = [service EXCEPT !.pc = "saved"]
    /\ UNCHANGED <<gateway, threads, cart, browser>>

\* Lines 35-41: the record is built and saved.
flatMap ==
    /\ service.pc = "flatMap"
    /\ service' = [service EXCEPT
                     !.pc = "saved",
                     !.saved = @ + 1,
                     !.records = Append(@, [questions |-> service.questions,
                                            result |-> bodyToMono(service.answer).body])]
    /\ UNCHANGED <<gateway, threads, cart, browser>>

\* Line 42: Mono.just(responseBody) gives the body to the caller.
EmitBody ==
    /\ service.pc = "saved"
    /\ service' = [service EXCEPT
                     !.pc = "done",
                     !.emitted = [kind |-> "body", body |-> bodyToMono(service.answer).body]]
    /\ UNCHANGED <<gateway, threads, cart, browser>>

\* The call is over.
ServiceReturns ==
    /\ service.pc = "done"
    /\ service' = [service EXCEPT !.pc = "idle", !.questions = null, !.answer = NoAnswer,
                                  !.saved = 0, !.emitted = NotEmitted]
    /\ UNCHANGED <<gateway, threads, cart, browser>>

\* PredictionController.getHistory: Repository.findAll(), at any moment.
getHistory ==
    /\ service.listed # service.records
    /\ service' = [service EXCEPT !.listed = service.records]
    /\ UNCHANGED <<gateway, threads, cart, browser>>

NextService ==
    \/ getPredictionFromPython
    \/ ServiceAnswers
    \/ flatMap
    \/ EmitBody
    \/ ServiceReturns
    \/ getHistory
(***************************************************************************)
(* useCartStore: the items of the cart and the call made last.             *)
(***************************************************************************)
Products == {[id |-> i, selling_price |-> p] : i \in 1..MaxProducts, p \in {5, 7}}

NoCartCall == [op |-> "none", id |-> 0, quantity |-> 0]
EmptyCart == [items |-> <<>>, call |-> NoCartCall]

undefined == [quantity |-> "undefined"]

\* items.find((item) => item.id === id): the first such item, or undefined.
find(items, id) ==
    IF \E i \in DOMAIN items : items[i].id = id
    THEN items[CHOOSE i \in DOMAIN items :
                   items[i].id = id /\ \A j \in 1..(i - 1) : items[j].id # id]
    ELSE undefined

\* items.filter(keep)
RECURSIVE filter(_, _)
filter(items, id) ==
    IF items = <<>> THEN <<>>
    ELSE (IF Head(items).id # id THEN <<Head(items)>> ELSE <<>>) \o filter(Tail(items), id)

\* Math.max(a, b)
max(a, b) == IF a >= b THEN a ELSE b

\* addItem that appends the product without looking for it in the cart.
addItemAlwaysAppends(product) ==
    /\ Len(cart.items) < MaxProducts
    /\ cart' = [items |-> Append(cart.items,
                                 [id |-> product.id, selling_price |-> product.selling_price,
                                  quantity |-> 1]),
                call |-> [op |-> "addItem", id |-> product.id, quantity |-> 0]]
    /\ UNCHANGED <<gateway, threads, service, browser>>

\* Lines 22-37.
addItem(product) ==
    /\ \A i \in DOMAIN cart.items :
          cart.items[i].id = product.id => cart.items[i].quantity < MaxQuantity
    /\ cart' = [items |->
                   IF find(cart.items, product.id) # undefined
                   THEN [i \in DOMAIN cart.items |->
                           IF cart.items[i].id = product.id
                           THEN [cart.items[i] EXCEPT !.quantity = @ + 1]
                           ELSE cart.items[i]]
                   ELSE Append(cart.items,
                               [id |-> product.id, selling_price |-> product.selling_price,
                                quantity |-> 1]),
                call |-> [op |-> "addItem", id |-> product.id, quantity |-> 0]]
    /\ UNCHANGED <<gateway, threads, service, browser>>

\* Lines 38-39.
removeItem(productId) ==
    /\ cart' = [items |-> filter(cart.items, productId),
                call |-> [op |-> "removeItem", id |-> productId, quantity |-> 0]]
    /\ UNCHANGED <<gateway, threads, service, browser>>

\* updateQuantity that stores the quantity as it is given.
updateQuantityUnclamped(productId, quantity) ==
    /\ cart' = [items |-> [i \in DOMAIN cart.items |->
                             IF cart.items[i].id = productId
                             THEN [cart.items[i] EXCEPT !.quantity = quantity]
                             ELSE cart.items[i]],
                call |-> [op |-> "updateQuantity", id |-> productId, quantity |-> quantity]]
    /\ UNCHANGED <<gateway, threads, service, browser>>

\* Lines 40-47.
updateQuantity(productId, quantity) ==
    /\ cart' = [items |-> [i \in DOMAIN cart.items |->
                             IF cart.items[i].id = productId
                             THEN [cart.items[i] EXCEPT !.quantity = max(0, quantity)]
                             ELSE cart.items[i]],
                call |-> [op |-> "updateQuantity", id |-> productId, quantity |-> quantity]]
    /\ UNCHANGED <<gateway, threads, service, browser>>

\* Line 48.
clearCart ==
    /\ cart' = [items |-> <<>>, call |-> [op |-> "clearCart", id |-> 0, quantity |-> 0]]
    /\ UNCHANGED <<gateway, threads, service, browser>>

NextCart ==
    \/ \E product \in Products : addItem(product)
    \/ \E productId \in 1..MaxProducts : removeItem(productId)
    \/ \E productId \in 1..MaxProducts, quantity \in (0 - 2)..MaxQuantity :
          updateQuantity(productId, quantity)
    \/ clearCart
(***************************************************************************)
(* The browser: localStorage ("token", "userRole"), the login page's       *)
(* handleLogin, handleLogout and what ProtectedRoute returned last.        *)
(***************************************************************************)
\* localStorage.getItem: null for a missing key, else the stored text.
Missing == [stored |-> FALSE, text |-> <<>>]
Stored(text) == [stored |-> TRUE, text |-> text]

\* !value of JavaScript for null, undefined and strings.
falsy(value) == ~value.stored \/ value.text = <<>>

AdminRole == <<"a", "d">>
UserRole == <<"user">>

\* The allowedRoles prop: not given, empty, admin only, admin and user.
AllowedRoles ==
    {[given |-> FALSE, list |-> {}], [given |-> TRUE, list |-> {}],
     [given |-> TRUE, list |-> {AdminRole}], [given |-> TRUE, list |-> {AdminRole, UserRole}]}

ClearStorage == [token |-> Missing, userRole |-> Missing]
NotRendered == [component |-> "none", allowedRoles |-> [given |-> FALSE, list |-> {}],
                storage |-> ClearStorage, returns |-> "none"]
NoLogin == [pc |-> "idle", page |-> "none", before |-> ClearStorage, outcome |-> "none",
            userrole |-> Missing]

FreshBrowser == [storage |-> ClearStorage, render |-> NotRendered, login |-> NoLogin,
                 loading |-> FALSE, error |-> "", location |-> "/login",
                 loggedOut |-> FALSE]

\* A route guard that looks at the role and never at the token.
ProtectedRouteRolesOnly(allowedRoles, storage) ==
    LET userRole == IF storage.userRole.stored THEN toLowerCase(storage.userRole.text)
                    ELSE <<>>
    IN  IF allowedRoles.given /\ userRole \notin allowedRoles.list THEN "/dashboard"
        ELSE "Outlet"

\* client/src/components/ProtectedRoutes/ProtectedRoute.tsx, lines 8-25.
ProtectedRoute(allowedRoles, storage) ==
    LET token == storage.token
        userRole == IF storage.userRole.stored THEN toLowerCase(storage.userRole.text)
                    ELSE <<>>
    IN  IF falsy(token) THEN "/login"
        ELSE IF allowedRoles.given /\ userRole \notin allowedRoles.list THEN "/dashboard"
        ELSE "Outlet"

\* part_013, lines 8-28: the role is trimmed as well, an empty list asks nothing.
ProtectedRouteTrimmed(allowedRoles, storage) ==
    LET token == storage.token
        userRole == IF storage.userRole.stored
                    THEN Stored(trim(toLowerCase(storage.userRole.text)))
                    ELSE Missing
    IN  IF falsy(token) THEN "/login"
        ELSE IF allowedRoles.given /\ allowedRoles.list # {}
                /\ (falsy(userRole) \/ userRole.text \notin allowedRoles.list)
             THEN "/dashboard"
        ELSE "Outlet"

\* A protected route is rendered by one of the two components.  Leaving the
\* login page unmounts it: a settled handleLogin, its error and its loading
\* flag are gone, a pending one still settles.
Render ==
    /\ \E component \in {"ProtectedRoute.tsx", "part_013"}, allowedRoles \in AllowedRoles :
          browser' =
             [browser EXCEPT
                !.login = IF @.pc = "settled" THEN NoLogin ELSE @,
                !.error = IF browser.login.pc = "settled" THEN "" ELSE @,
                !.render =
                   [component |-> component, allowedRoles |-> allowedRoles,
                    storage |-> browser.storage,
                    returns |-> IF component = "part_013"
                                THEN ProtectedRouteTrimmed(allowedRoles, browser.storage)
                                ELSE ProtectedRoute(allowedRoles, browser.storage)]]
    /\ UNCHANGED <<gateway, threads, service, cart>>

\* part_007, lines 1-7: localStorage.clear() and a reload of the app at /login.
handleLogout ==
    /\ browser' = [FreshBrowser EXCEPT !.loggedOut = TRUE]
    /\ UNCHANGED <<gateway, threads, service, cart>>

\* The responses of loginUser: rejected, or resolved with a token and a userrole
\* (missing, or a string).
LoginResponses ==
    {[ok |-> FALSE, access_token |-> <<>>, userrole |-> Missing]}
      \cup {[ok |-> TRUE, access_token |-> <<t>>, userrole |-> r] :
               t \in {"t1", "t2"}, r \in {Missing} \cup {Stored(x) : x \in RoleStrings}}

\* part_004, lines 675-686 (page "trim") and 780-781 (page "plain"): the
\* session stored for a resolved login.
storeSession(page, data) ==
    [token |-> Stored(data.access_token),
     userRole |-> IF falsy(data.userrole) THEN Stored(UserRole)
                  ELSE IF page = "trim" THEN Stored(trim(toLowerCase(data.userrole.text)))
                  ELSE data.userrole]

\* Lines 661-664 and 772-775: handleLogin up to the await, on the login page
\* (a public route: no protected route is on screen).
handleLogin ==
    /\ browser.login.pc # "awaiting"
    /\ \E page \in {"trim", "plain"} :
          browser' = [browser EXCEPT
                        !.login = [pc |-> "awaiting", page |-> page,
                                   before |-> browser.storage, outcome |-> "none",
                                   userrole |-> Missing],
                        !.render = NotRendered,
                        !.error = "", !.loading = TRUE]
    /\ UNCHANGED <<gateway, threads, service, cart>>

\* Lines 667-694 and 778-788: loginUser settles; try, catch and finally.
loginUser ==
    /\ browser.login.pc = "awaiting"
    /\ \E res \in LoginResponses :
          browser' =
             IF res.ok
             THEN [browser EXCEPT
                     !.storage = storeSession(browser.login.page, res),
                     !.login = [@ EXCEPT !.pc = "settled", !.outcome = "resolved",
                                         !.before = browser.storage,
                                         !.userrole = res.userrole],
                     !.render = NotRendered,
                     !.location = "/dashboard", !.loading = FALSE, !.loggedOut = FALSE]
             ELSE [browser EXCEPT
                     !.login = [@ EXCEPT !.pc = "settled", !.outcome = "rejected",
                                         !.before = browser.storage],
                     !.error = "Invalid email or password", !.loading = FALSE]
    /\ UNCHANGED <<gateway, threads, service, cart>>

NextBrowser ==
    \/ Render
    \/ handleLogout
    \/ handleLogin
    \/ loginUser

Init ==
    /\ pc = "idle"
    /\ request = NoRequest
    /\ authentication = NoAuthentication
    /\ chainCalls = 0
    /\ escaped = FALSE
    /\ outbound = NoCall
    /\ upstream = NoAnswer
    /\ result = NoResult
    /\ response = NoResult
    /\ stdout = <<>>
    /\ upstreamCalls = 0
    /\ served = NoServed
    /\ threads = [w \in Workers |-> IdleWorker]
    /\ service = IdleService
    /\ cart = EmptyCart
    /\ browser = FreshBrowser

\* A request arrives; its security context is empty.
Receive ==
    /\ pc = "idle"
    /\ served = NoServed
    /\ \E req \in Requests : request' = req
    /\ pc' = "filter"
    /\ UNCHANGED <<authentication, chainCalls, escaped, outbound, upstream, result,
                   response, stdout, upstreamCalls, served>>
    /\ UNCHANGED outside

\* The request that has just been forwarded arrives a second time.
ReceiveAgain ==
    /\ pc = "idle"
    /\ served # NoServed
    /\ request' = served.request
    /\ pc' = "filter"
    /\ UNCHANGED <<authentication, chainCalls, escaped, outbound, upstream, result,
                   response, stdout, upstreamCalls, served>>
    /\ UNCHANGED outside

\* Lines 36-45: pre-flight, no header, another scheme.
FilterBypass ==
    /\ pc = "filter"
    /\ Bypass(request)
    /\ chainCalls' = chainCalls + 1
    /\ pc' = "authorize"
    /\ UNCHANGED <<request, authentication, escaped, outbound, upstream, result,
                   response, stdout, upstreamCalls, served>>
    /\ UNCHANGED outside

\* Lines 47-102: the token after "Bearer " is verified inside try/catch.
FilterVerify ==
    /\ pc = "filter"
    /\ ~Bypass(request)
    /\ LET token == request.headers["Authorization"].rest
           end == TryBody(token)
       IN  /\ stdout' = stdout \o Printed(token)
           /\ IF end.thrown = "none" \/ Caught(end.thrown)
              THEN /\ authentication' = end.authentication
                   /\ pc' = "forward"
                   /\ UNCHANGED <<escaped, result, response>>
              ELSE /\ escaped' = TRUE
                   /\ result' = Failed(500)
                   /\ response' = Failed(500)
                   /\ pc' = "done"
                   /\ UNCHANGED authentication
    /\ UNCHANGED <<request, chainCalls, outbound, upstream, upstreamCalls, served>>
    /\ UNCHANGED outside

\* A filter that answers 401 itself when it has authenticated nobody.
FilterForwardRejects ==
    /\ pc = "forward"
    /\ IF authentication = NoAuthentication
       THEN /\ result' = Entity(401, EmptyBody)
            /\ response' = Entity(401, EmptyBody)
            /\ pc' = "done"
            /\ UNCHANGED chainCalls
       ELSE /\ chainCalls' = chainCalls + 1
            /\ pc' = "authorize"
            /\ UNCHANGED <<result, response>>
    /\ UNCHANGED <<request, authentication, escaped, outbound, upstream,
                   stdout, upstreamCalls, served>>
    /\ UNCHANGED outside

\* Line 105.
FilterForward ==
    /\ pc = "forward"
    /\ chainCalls' = chainCalls + 1
    /\ pc' = "authorize"
    /\ UNCHANGED <<request, authentication, escaped, outbound, upstream, result,
                   response, stdout, upstreamCalls, served>>
    /\ UNCHANGED outside

\* The authorization filter behind the JWT filter; with no entry point
\* configured, a request it denies is answered 403.
Authorize ==
    /\ pc = "authorize"
    /\ IF Permitted(request, authentication)
       THEN pc' = "dispatch" /\ UNCHANGED <<result, response>>
       ELSE /\ pc' = "done"
            /\ result' = Entity(403, EmptyBody)
            /\ response' = Entity(403, EmptyBody)
    /\ UNCHANGED <<request, authentication, chainCalls, escaped, outbound, upstream,
                   stdout, upstreamCalls, served>>
    /\ UNCHANGED outside

\* A forwarder placed in front of the authorization rules: it issues the call
\* as soon as the filter has handed the request on.
proxyBeforeAuthorization ==
    /\ pc \in {"authorize", "dispatch"}
    /\ IsPrefix(ServerPrefix, request.path)
    /\ outbound' = UpstreamCall(request)
    /\ upstreamCalls' = upstreamCalls + 1
    /\ pc' = "upstream"
    /\ UNCHANGED <<request, authentication, chainCalls, escaped, upstream, result,
                   response, stdout, served>>
    /\ UNCHANGED outside

\* @RequestMapping("/api/server/**"), lines 91-105: the call is issued.
proxyToFastAPI ==
    /\ pc = "dispatch"
    /\ IsPrefix(ServerPrefix, request.path)
    /\ outbound' = UpstreamCall(request)
    /\ upstreamCalls' = upstreamCalls + 1
    /\ pc' = "upstream"
    /\ UNCHANGED <<request, authentication, chainCalls, escaped, upstream, result,
                   response, stdout, served>>
    /\ UNCHANGED outside

\* A route of another controller of the gateway.
OtherRoute ==
    /\ pc = "dispatch"
    /\ ~IsPrefix(ServerPrefix, request.path)
    /\ pc' = "done"
    /\ UNCHANGED <<request, authentication, chainCalls, escaped, outbound, upstream, result,
                   response, stdout, upstreamCalls, served>>
    /\ UNCHANGED outside

\* retrieve() followed by .retry(1): an upstream that cannot be reached is called again.
UpstreamAnswersRetrying ==
    /\ pc = "upstream"
    /\ \E answer \in Answers \cup {Unreachable} :
          /\ upstream' = answer
          /\ result' = ProxyResult(answer)
          /\ upstreamCalls' = IF answer = Unreachable THEN upstreamCalls + 1 ELSE upstreamCalls
    /\ pc' = "async"
    /\ UNCHANGED <<request, authentication, chainCalls, escaped, outbound,
                   response, stdout, served>>
    /\ UNCHANGED outside

\* Lines 106-109: the upstream answers (or cannot be reached) and the Mono completes.
UpstreamAnswers ==
    /\ pc = "upstream"
    /\ \E answer \in Answers \cup {Unreachable} :
          /\ upstream' = answer
          /\ result' = ProxyResult(answer)
    /\ pc' = "async"
    /\ UNCHANGED <<request, authentication, chainCalls, escaped, outbound,
                   response, stdout, upstreamCalls, served>>
    /\ UNCHANGED outside

\* The security context of the dispatch that writes the Mono's result: the
\* filter stored the authentication in the holder of the first dispatch only,
\* and as a OncePerRequestFilter it does not run on this one.
AsyncContext(req) ==
    IF shouldNotFilterAsyncDispatch \/ Bypass(req) THEN NoAuthentication
    ELSE LET end == TryBody(req.headers["Authorization"].rest)
         IN  IF Caught(end.thrown) \/ end.thrown = "none"
             THEN end.authentication ELSE NoAuthentication

\* The Mono returned by proxyToFastAPI has completed: the request is dispatched
\* again (DispatcherType.ASYNC) through the security filter chain, whose
\* authorization rules apply to every dispatch, and the result is written.
AsyncDispatch ==
    /\ pc = "async"
    /\ authentication' = AsyncContext(request)
    /\ response' = IF Permitted(request, AsyncContext(request))
                   THEN result
                   ELSE Entity(403, EmptyBody)
    /\ chainCalls' = IF shouldNotFilterAsyncDispatch THEN chainCalls ELSE chainCalls + 1
    /\ stdout' = IF shouldNotFilterAsyncDispatch \/ Bypass(request) THEN stdout
                 ELSE stdout \o Printed(request.headers["Authorization"].rest)
    /\ pc' = "done"
    /\ UNCHANGED <<request, escaped, outbound, upstream, result, upstreamCalls, served>>
    /\ UNCHANGED outside

\* The request is over; the security context is cleared.  A GET that was
\* forwarded is remembered until it has been sent a second time.
Complete ==
    /\ pc = "done"
    /\ pc' = "idle"
    /\ request' = NoRequest
    /\ authentication' = NoAuthentication
    /\ chainCalls' = 0
    /\ escaped' = FALSE
    /\ outbound' = NoCall
    /\ upstream' = NoAnswer
    /\ result' = NoResult
    /\ response' = NoResult
    /\ stdout' = <<>>
    /\ IF outbound # NoCall /\ request.method = "GET" /\ served = NoServed
       THEN served' = [request |-> request, call |-> outbound] /\ UNCHANGED upstreamCalls
       ELSE served' = NoServed /\ upstreamCalls' = 0
    /\ UNCHANGED outside

Next ==
    \/ Receive
    \/ ReceiveAgain
    \/ FilterBypass
    \/ FilterVerify
    \/ FilterForward
    \/ Authorize
    \/ proxyToFastAPI
    \/ OtherRoute
    \/ UpstreamAnswers
    \/ AsyncDispatch
    \/ Complete

Spec == Init /\ [][Next]_vars

SpecConcurrent == Init /\ [][NextConcurrent]_vars

SpecService == Init /\ [][NextService]_vars

SpecCart == Init /\ [][NextCart]_vars

SpecBrowser == Init /\ [][NextBrowser]_vars

(***************************************************************************)
(* Vocabulary of the properties.                                           *)
(***************************************************************************)
authHeader == request.headers["Authorization"]
presentedToken == authHeader.rest

\* The filter has handed the request to the next handler and nothing has run since.
HandedOver == pc = "authorize"
PastFilter == pc \in {"authorize", "dispatch", "upstream", "async", "done"}

\* The request carries "Bearer <token>" and is not a pre-flight request.
TokenExamined ==
    /\ request.method \notin {"OPTIONS", "options"}
    /\ authHeader # NullHeader
    /\ authHeader.head = "Bearer "

SignatureVerifies(token) ==
    token.form = "jws" /\ token.sig.key = secret /\ token.sig.payload = token.payload

Blank(text) == \A i \in DOMAIN text : text[i] = " "

\* The routes the specification lists as public, and the rest of the allow-list.
ListedPublic(req) ==
    \/ req.method = "OPTIONS"
    \/ req.path = LoginPath
    \/ IsPrefix(<<"/api", "/predictions">>, req.path)

AllowListed(req) == ListedPublic(req) \/ req.path = ErrorPath

\* A token the parser refuses: bad signature, malformed, empty, or expired.
InvalidToken(token) == ~SignatureVerifies(token) \/ token.payload.expired

\* The forwarder has issued its call for the request.
Forwarded == outbound # NoCall

\* The status and body with which the authorization layer rejects a request.
Rejection == Entity(403, EmptyBody)

\* C1: a request without an Authorization header, with a header that does not
\* start with "Bearer ", or with method OPTIONS, leaves the filter with an empty
\* security context, no exception, and the next handler invoked.
C1_BypassLeavesContextEmpty ==
    (pc # "idle" /\ (\/ authHeader = NullHeader
                     \/ authHeader.head # "Bearer "
                     \/ request.method = "OPTIONS"))
        => /\ authentication = NoAuthentication
           /\ ~escaped
           /\ pc = "filter" => ENABLED FilterBypass
           /\ pc # "filter" => PastFilter /\ chainCalls = 1

C1_Witness ==
    /\ HandedOver
    /\ request.method = "OPTIONS"
    /\ authHeader = Bearer(AdminToken)
    /\ authentication = NoAuthentication
    /\ chainCalls = 1

\* C2: a token whose signature does not verify against the shared secret (other
\* key, tampered payload, malformed, empty) leaves the request unauthenticated,
\* lets no exception escape, and the request still reaches the next handler.
C2_BadSignatureStaysAnonymous ==
    (pc # "idle" /\ authHeader.head = "Bearer " /\ ~SignatureVerifies(presentedToken))
        => /\ authentication = NoAuthentication
           /\ ~escaped
           /\ pc \in {"filter", "forward"} => ENABLED (FilterBypass \/ FilterVerify \/ FilterForward)
           /\ pc \notin {"filter", "forward"} => PastFilter /\ chainCalls = 1

C2_Witness ==
    /\ HandedOver
    /\ TokenExamined
    /\ presentedToken \in ForgedTokens \cup TamperedTokens \cup {EmptyText, Garbage}
    /\ chainCalls = 1

\* C3: on every path through the filter the next handler is invoked, exactly
\* once; the filter never ends the request or writes a response itself.
C3_ChainInvokedExactlyOnce ==
    /\ pc \in {"filter", "forward"} =>
          /\ chainCalls = 0
          /\ ENABLED (FilterBypass \/ FilterVerify \/ FilterForward)
    /\ PastFilter => chainCalls = 1 /\ ~escaped
    /\ HandedOver => result = NoResult

C3_Witness ==
    /\ HandedOver
    /\ TokenExamined
    /\ presentedToken = Garbage
    /\ chainCalls = 1
    /\ result = NoResult

\* C4 as claimed: every correctly signed token with a role claim r publishes an
\* identity whose single authority is lowercase(trim(r)), bound to the subject.
C4_EverySignedRolePublished ==
    (HandedOver /\ TokenExamined /\ SignatureVerifies(presentedToken)
        /\ presentedToken.payload.role.type = "String")
        => /\ authentication.present
           /\ authentication.authorities
                = <<toLowerCase(trim(presentedToken.payload.role.text))>>
           /\ authentication.principal = presentedToken.payload.sub

\* C4 amended: a correctly signed, unexpired token whose role claim r is a string
\* with a non-blank character publishes an identity whose single authority is
\* lowercase(trim(r)), bound to the subject; a blank r publishes no identity.
C4_NonBlankRolePublished ==
    (HandedOver /\ TokenExamined /\ SignatureVerifies(presentedToken)
        /\ ~presentedToken.payload.expired
        /\ presentedToken.payload.role.type = "String")
        => IF Blank(presentedToken.payload.role.text)
           THEN authentication = NoAuthentication
           ELSE /\ authentication.present
                /\ Len(authentication.authorities) = 1
                /\ authentication.authorities[1]
                     = toLowerCase(trim(presentedToken.payload.role.text))
                /\ authentication.principal = presentedToken.payload.sub

C4_Witness ==
    /\ HandedOver
    /\ TokenExamined
    /\ presentedToken = Jws([sub |-> "alice", role |-> [type |-> "String", text |-> <<" ", "A">>],
                             expired |-> FALSE],
                            Mac(secret, [sub |-> "alice",
                                         role |-> [type |-> "String", text |-> <<" ", "A">>],
                                         expired |-> FALSE]))
    /\ authentication.authorities = <<(<<"a">>)>>
    /\ authentication.principal = "alice"

\* C5 as claimed: the request becomes authenticated if and only if the token's
\* signature verifies and a role claim is present.
C5_AuthenticatedIffSignedWithRole ==
    (HandedOver /\ TokenExamined)
        => (authentication.authenticated
              <=> /\ SignatureVerifies(presentedToken)
                  /\ presentedToken.payload.role.type # "absent")

\* The state part of C5 amended.
C5_Gate ==
    /\ (HandedOver /\ TokenExamined)
          => (authentication.authenticated
                <=> /\ SignatureVerifies(presentedToken)
                    /\ ~presentedToken.payload.expired
                    /\ presentedToken.payload.role.type = "String"
                    /\ ~Blank(presentedToken.payload.role.text))
    /\ (PastFilter /\ TokenExamined /\ SignatureVerifies(presentedToken)
          /\ presentedToken.payload.role.type = "absent")
          => ~escaped /\ chainCalls = 1
    /\ (HandedOver /\ ~TokenExamined) => ~authentication.authenticated

\* C5 amended: the request becomes authenticated if and only if the token's
\* signature verifies, the token has not expired and its role claim is a string
\* with a non-blank character; a verified token without a role claim publishes
\* no identity and the request goes on; no step of the filter takes an
\* authenticated request back to unauthenticated.
C5_AuthenticatedIffUsableRole ==
    /\ []C5_Gate
    /\ [][(pc \in {"filter", "forward"} /\ authentication.authenticated)
            => authentication'.authenticated]_vars

C5_Witness ==
    /\ HandedOver
    /\ TokenExamined
    /\ SignatureVerifies(presentedToken)
    /\ presentedToken.payload.role.type = "absent"
    /\ presentedToken.payload.sub = "alice"
    /\ ~authentication.authenticated
    /\ chainCalls = 1

\* C6: a request that is not authenticated carries no subject and no
\* authorities in its authentication result.
C6_AnonymousHasNoIdentity ==
    ~authentication.authenticated
        => /\ authentication.principal = null
           /\ authentication.authorities = <<>>
           /\ ~authentication.present

C6_Witness ==
    /\ HandedOver
    /\ TokenExamined
    /\ SignatureVerifies(presentedToken)
    /\ ~presentedToken.payload.expired
    /\ presentedToken.payload.sub = "alice"
    /\ presentedToken.payload.role.type \in {"absent", "Integer"}
    /\ authentication = NoAuthentication

\* C7: for a path P under "/api/server/" the upstream URI is "/api/" followed by
\* P without its leading "/api/server/", then "?" and the unchanged query
\* string when there is one; a later "/api/server" in P is left as it is.
C7_OnlyLeadingPrefixRewritten ==
    (pc = "upstream" /\ IsPrefix(ServerPrefix, request.path) /\ Len(request.path) > 2)
        => outbound.uri
             = <<"/api">> \o SubSeq(request.path, 3, Len(request.path))
                 \o (IF request.query.present THEN <<"?">> \o request.query.text ELSE <<>>)

\* C8: an upstream answer with an error status (4xx, 5xx) comes back with
\* exactly that status and exactly that body.
C8_ErrorRelayedVerbatim ==
    (pc = "done" /\ upstream.kind = "response" /\ upstream.status >= 400)
        => result = Entity(upstream.status, upstream.body)

\* C9: a successful upstream answer comes back with the upstream's status and
\* the upstream's body.
C9_SuccessRelayedVerbatim ==
    (pc = "done" /\ upstream.kind = "response" /\ upstream.status < 400)
        => result = Entity(upstream.status, upstream.body)

\* C10: of the inbound headers the upstream call carries Authorization and
\* Content-Type only; every other inbound header is absent from it.
C10_OnlyAllowListedHeaders ==
    pc = "upstream"
        => /\ DOMAIN outbound.headers \subseteq {"Authorization", "Content-Type"}
           /\ \A name \in {"Authorization", "Content-Type"} :
                 request.headers[name] # NullHeader
                    => /\ name \in DOMAIN outbound.headers
                       /\ outbound.headers[name] = <<request.headers[name]>>

C10_Witness ==
    /\ pc = "upstream"
    /\ request.headers["Cookie"] # NullHeader
    /\ request.headers["X-Forwarded-For"] # NullHeader
    /\ request.headers["Content-Type"] = Plain("application/json")
    /\ "Cookie" \notin DOMAIN outbound.headers
    /\ "Content-Type" \in DOMAIN outbound.headers

\* C11 as claimed: a GET of /api/server/orders/ without an Authorization header
\* passes the filter untouched, reaches the forwarder, is sent upstream as
\* GET /api/orders/, and the caller receives the upstream's 200 and body.
C11_AnonymousOrdersForwarded ==
    (pc = "done" /\ request.method = "GET" /\ request.path = OrdersSlashPath
        /\ authHeader = NullHeader)
        => /\ authentication = NoAuthentication
           /\ outbound.method = "GET"
           /\ outbound.uri = <<"/api", "/orders", "/">>
           /\ upstream = [kind |-> "response", status |-> 200, body |-> JsonBody]
                 => response = Entity(200, JsonBody)

\* C11 amended: a GET of /api/server/orders/ without an Authorization header
\* passes the filter untouched (no identity, no exception, next handler invoked
\* once) and is then rejected by the authorization rules with 403: it never
\* reaches the forwarder and no upstream call is made.
C11_AnonymousOrdersRejected ==
    (pc # "idle" /\ request.method = "GET" /\ request.path = OrdersSlashPath
        /\ authHeader = NullHeader)
        => /\ authentication = NoAuthentication
           /\ ~escaped
           /\ pc \in {"filter", "authorize", "done"}
           /\ pc = "filter" => ENABLED FilterBypass
           /\ ~Forwarded /\ upstreamCalls = 0 /\ upstream = NoAnswer
           /\ pc = "done" => chainCalls = 1 /\ response = Rejection

C11_Witness ==
    /\ pc = "done"
    /\ request.method = "GET"
    /\ request.path = OrdersSlashPath
    /\ authHeader = NullHeader
    /\ chainCalls = 1
    /\ response = Rejection
    /\ ~Forwarded

\* C12: a request to a path outside the public allow-list that carries no token,
\* or a token the parser refuses ("Bearer garbage"), is rejected by the
\* authorization rules with 401 or 403, and no upstream call is made for it.
C12_NoValidTokenRejected ==
    (pc # "idle" /\ ~AllowListed(request)
        /\ (\/ authHeader = NullHeader
            \/ authHeader.head = "Bearer " /\ InvalidToken(presentedToken)))
        => /\ ~Forwarded
           /\ upstreamCalls = 0
           /\ upstream = NoAnswer
           /\ pc \in {"filter", "forward", "authorize", "done"}
           /\ pc = "done" => /\ response.kind = "entity"
                             /\ response.status \in {401, 403}
                             /\ response.body = EmptyBody

C12_Witness ==
    /\ pc = "done"
    /\ request.path = OrdersPath
    /\ request.method = "POST"
    /\ authHeader = Bearer(Garbage)
    /\ response = Rejection
    /\ ~Forwarded
    /\ upstreamCalls = 0

\* C13: a request to a protected proxied path with a correctly signed token
\* whose role is "admin" is given the authority admin, is permitted, and the
\* response the caller finally receives, after the upstream call has completed,
\* is the forwarder's result and not an authorization rejection.
C13_AdminReceivesForwarderResult ==
    (IsPrefix(ServerPrefix, request.path) /\ ~AllowListed(request)
        /\ TokenExamined /\ presentedToken = AdminToken)
        => /\ pc \in {"dispatch", "upstream"} => authentication.authorities = <<(<<"a", "d">>)>>
           /\ pc = "done" => /\ Forwarded
                             /\ result # NoResult
                             /\ response = result

\* C14 as claimed: only the login route, OPTIONS to any path and
\* /api/predictions/** are admitted without a token; every other request needs
\* an authenticated identity.
C14_OnlyListedRoutesPublic ==
    (pc \in {"dispatch", "upstream"} /\ ~ListedPublic(request))
        => authentication.authenticated

\* C14 amended: the login route, OPTIONS to any path, /api/predictions/** and
\* the error page /error are admitted without a token and never answered with
\* the authorization rejection; POST /api/server/users/login with a JSON body
\* and no token is forwarded with the same method and body and the upstream's
\* 200 comes back unchanged; every request outside this list needs an
\* authenticated identity to get past the authorization rules.
C14_AllowListWithErrorPage ==
    /\ (pc \in {"dispatch", "upstream"} /\ ~AllowListed(request))
          => authentication.authenticated
    /\ (pc # "idle" /\ AllowListed(request))
          => response # Rejection /\ result # Rejection
    /\ (pc = "done" /\ request.method = "POST" /\ request.path = LoginPath
          /\ authHeader = NullHeader /\ request.body = JsonBody
          /\ request.headers["Content-Type"] = Plain("application/json")
          /\ upstream = [kind |-> "response", status |-> 200, body |-> JsonBody])
          => /\ outbound.method = "POST"
             /\ outbound.body = JsonBody
             /\ response = Entity(200, JsonBody)

C14_Witness ==
    /\ pc = "done"
    /\ request.method = "POST"
    /\ request.path = LoginPath
    /\ authHeader = NullHeader
    /\ request.body = JsonBody
    /\ ~request.query.present
    /\ upstream = [kind |-> "response", status |-> 200, body |-> JsonBody]
    /\ outbound.method = "POST"
    /\ outbound.body = JsonBody
    /\ response = Entity(200, JsonBody)

\* C15: when the upstream cannot be reached the forwarder itself answers with a
\* gateway-level status that says the upstream is unavailable (502, 503 or
\* 504), distinct from every status it relays; the request is not left
\* without an answer.
C15_UnreachableAnsweredAsGatewayError ==
    (pc \in {"async", "done"} /\ upstream = Unreachable)
        => /\ result.kind = "entity"
           /\ result.status \in {502, 503, 504}
           /\ result.status \notin Statuses

\* C16: a request that reaches the forwarder makes exactly one upstream call,
\* whatever the upstream answers (no retry); the same GET sent a second time
\* makes a second call of its own (no cache), with the same rewritten URI.
C16_OneCallPerRequest ==
    /\ served = NoServed => upstreamCalls = (IF Forwarded THEN 1 ELSE 0)
    /\ served # NoServed => upstreamCalls = (IF Forwarded THEN 2 ELSE 1)
    /\ pc \in {"upstream", "async"} => Forwarded
    /\ (pc = "done" /\ upstream # NoAnswer) => Forwarded
    /\ (served # NoServed /\ pc # "idle")
          => /\ request = served.request
             /\ pc \in {"filter", "forward", "authorize", "dispatch"} => ~Forwarded
             /\ pc = "authorize" => ENABLED Authorize
             /\ pc = "dispatch" => ENABLED proxyToFastAPI
             /\ Forwarded => outbound.uri = served.call.uri /\ outbound = served.call

C16_Witness ==
    /\ pc = "done"
    /\ served # NoServed
    /\ request = served.request
    /\ request.method = "GET"
    /\ request.query.present
    /\ upstream.kind = "response"
    /\ upstream.status = 500
    /\ upstreamCalls = 2
    /\ outbound.uri = served.call.uri

\* C17: the body of the upstream call is the inbound body, byte for byte,
\* whatever the content type (JSON, multipart form data, raw bytes), the empty
\* body included.
C17_BodyForwardedVerbatim ==
    Forwarded => outbound.body = request.body

\* C18: the upstream call uses the method of the inbound request, for every
\* method that reaches the forwarder.
C18_MethodPreserved ==
    /\ Forwarded => outbound.method = request.method
    /\ pc \in {"upstream", "async"} => Forwarded

C18_Witness ==
    /\ pc = "upstream"
    /\ request.method = "PUT"
    /\ outbound.method = "PUT"

\* C19: the filter's only effect is the authentication it sets for the
\* request; the raw bearer token is never written to standard output or a log.
C19_TokenNeverPrinted ==
    \A i \in DOMAIN stdout :
        ~("token" \in DOMAIN stdout[i] /\ stdout[i].token = presentedToken)

\* C20: an upstream answer whose body is larger than the 16 MiB buffer makes
\* the request fail with an outcome that cannot be taken for a relayed answer:
\* it does not come back as the upstream's status with a cut or empty body.
C20_OversizeFailsDistinctly ==
    (pc \in {"async", "done"} /\ upstream.kind = "response"
        /\ upstream.body.size > maxInMemorySize)
        => ~(result.kind = "entity" /\ result.status = upstream.status)

\* C21: for a request to /api/server/** no upstream call is issued before the
\* JWT filter has run for the request (and handed it on, once) and the
\* authorization rules have admitted it.
C21_AuthenticationPrecedesProxying ==
    /\ [](pc \in {"idle", "filter", "forward", "authorize", "dispatch"} => ~Forwarded)
    /\ [](Forwarded => /\ chainCalls = 1
                       /\ ~escaped
                       /\ IsPrefix(ServerPrefix, request.path)
                       /\ pc \in {"upstream", "async", "done"})
    /\ [][(~Forwarded /\ outbound' # NoCall)
            => /\ pc = "dispatch"
               /\ chainCalls = 1
               /\ AllowListed(request) \/ authentication.authenticated]_vars

C21_Witness ==
    /\ pc = "upstream"
    /\ Forwarded
    /\ chainCalls = 1
    /\ ~AllowListed(request)
    /\ TokenExamined
    /\ authentication.authenticated

\* C22: whatever the interleaving of concurrent requests, the authentication a
\* request ends with (subject and authority, or none) is the one its own
\* credentials give, and its authorization outcome follows from that alone:
\* the result of one request never shows in another.
C22_RequestsIsolated ==
    \A w \in Workers :
        LET own == doFilterInternal(threads[w].request, NoAuthentication)
        IN  /\ threads[w].pc \in {"idle", "filter"} => threads[w].context = NoAuthentication
            /\ threads[w].pc \in {"authorize", "done"} => threads[w].context = own
            /\ threads[w].pc # "done" => threads[w].outcome = "none"
            /\ threads[w].pc = "done" =>
                  threads[w].outcome
                     = (IF AllowListed(threads[w].request) \/ own.authenticated
                        THEN "permit" ELSE "deny")
            /\ threads[w].context.present =>
                  /\ threads[w].request.headers["Authorization"].head = "Bearer "
                  /\ threads[w].context.principal
                        = threads[w].request.headers["Authorization"].rest.payload.sub

C22_Witness ==
    \E w \in Workers, v \in Workers :
        /\ w # v
        /\ threads[w].pc = "done"
        /\ threads[w].request.path = OrdersPath
        /\ threads[w].request.headers["Authorization"] = Bearer(AdminToken)
        /\ threads[w].context.principal = "alice"
        /\ threads[w].outcome = "permit"
        /\ threads[v].pc = "done"
        /\ threads[v].request.path = OrdersPath
        /\ threads[v].request.headers["Authorization"] = NullHeader
        /\ threads[v].context = NoAuthentication
        /\ threads[v].outcome = "deny"

\* The number of times the filter has taken the token of the request in hand.
Verifications == Cardinality({i \in DOMAIN stdout : stdout[i].line = 51})

\* C23: the filter's logic runs exactly once for an inbound request; the later
\* dispatch of the same request that delivers the forwarder's result (or its
\* error) does not verify the token, or invoke the next handler, a second time.
C23_FilterRunsOncePerRequest ==
    /\ [](PastFilter => /\ chainCalls = 1
                        /\ Verifications = (IF TokenExamined THEN 1 ELSE 0))
    /\ [][pc = "async" => stdout' = stdout /\ chainCalls' = chainCalls]_vars

C23_Witness ==
    /\ pc = "done"
    /\ Forwarded
    /\ upstream.kind = "response"
    /\ TokenExamined
    /\ presentedToken = AdminToken
    /\ Verifications = 1
    /\ chainCalls = 1
    /\ Len(stdout) = 4

\* C24: a correctly signed token whose role claim is empty or only whitespace
\* never yields an authenticated identity with an empty authority: the request
\* goes on unauthenticated and is still handed to the next handler, once.
C24_BlankRoleStaysAnonymous ==
    /\ (pc # "idle" /\ TokenExamined /\ SignatureVerifies(presentedToken)
          /\ presentedToken.payload.role.type = "String"
          /\ Blank(presentedToken.payload.role.text))
          => /\ authentication = NoAuthentication
             /\ ~escaped
             /\ pc \in {"filter", "forward"} => ENABLED (FilterVerify \/ FilterForward)
             /\ pc \notin {"filter", "forward"} => PastFilter /\ chainCalls = 1
    /\ authentication.present
          => /\ Len(authentication.authorities) = 1
             /\ ~Blank(authentication.authorities[1])

C24_Witness ==
    /\ HandedOver
    /\ TokenExamined
    /\ SignatureVerifies(presentedToken)
    /\ ~presentedToken.payload.expired
    /\ presentedToken.payload.role = [type |-> "String", text |-> <<" ", " ">>]
    /\ authentication = NoAuthentication
    /\ chainCalls = 1
    /\ stdout[Len(stdout)].line = 100

\* C25: the forwarder issues the upstream call for every admitted request
\* whether or not it has an Authorization or a Content-Type header; a header
\* the request does not have is absent from the call: no header with a null
\* value, no exception in place of the call.
C25_AbsentHeadersLeftOut ==
    /\ (pc = "dispatch" /\ IsPrefix(ServerPrefix, request.path)) => ENABLED proxyToFastAPI
    /\ pc \in {"upstream", "async"} => Forwarded /\ ~escaped
    /\ Forwarded =>
          \A name \in {"Authorization", "Content-Type"} :
              /\ request.headers[name] = NullHeader => name \notin DOMAIN outbound.headers
              /\ name \in DOMAIN outbound.headers =>
                    \A i \in DOMAIN outbound.headers[name] :
                        outbound.headers[name][i] # NullHeader

C25_Witness ==
    /\ pc = "upstream"
    /\ request.method = "POST"
    /\ request.path = LoginPath
    /\ request.headers["Authorization"] = NullHeader
    /\ request.headers["Content-Type"] = NullHeader
    /\ request.body = JsonBody
    /\ DOMAIN outbound.headers = {}
    /\ outbound.body = JsonBody

\* The AI service has answered the call in hand with a status below 400.
AnsweredSuccessfully ==
    service.answer.kind = "response" /\ service.answer.status < 400

\* C26 as claimed: a call the AI service answers successfully saves exactly one
\* record holding the questions and the returned body, and every other call
\* saves none.
C26_OneRecordPerSuccess ==
    service.pc = "done"
        => IF AnsweredSuccessfully
           THEN /\ service.saved = 1
                /\ service.records[Len(service.records)]
                     = [questions |-> service.questions, result |-> service.answer.body]
           ELSE service.saved = 0

\* C26 amended: a call saves exactly one record, holding the questions and the
\* returned body, when the AI service answers with a status below 400 and a
\* non-empty body within the 16 MiB buffer, and saves it before the body is
\* given to the caller; every other call (error status, service unreachable,
\* empty body, body over the buffer) saves no record and gives the caller no
\* body; the history lists saved records only.
C26_OneRecordPerDeliveredBody ==
    /\ service.saved \in {0, 1}
    /\ service.pc = "done" =>
          IF AnsweredSuccessfully /\ service.answer.body.size > 0
                /\ service.answer.body.size <= maxInMemorySize
          THEN /\ service.saved = 1
               /\ service.records[Len(service.records)]
                    = [questions |-> service.questions, result |-> service.answer.body]
               /\ service.emitted = [kind |-> "body", body |-> service.answer.body]
          ELSE /\ service.saved = 0
               /\ service.emitted.kind \in {"empty", "error"}
    /\ service.emitted.kind = "body" => service.saved = 1
    /\ service.pc \in {"idle", "waiting", "flatMap"} => service.saved = 0
    /\ Len(service.listed) <= Len(service.records)
    /\ service.listed = SubSeq(service.records, 1, Len(service.listed))
    /\ \A i \in DOMAIN service.records :
          /\ service.records[i].questions \in Questions
          /\ service.records[i].result.size > 0
          /\ service.records[i].result.size <= maxInMemorySize

C26_Witness ==
    /\ service.pc = "saved"
    /\ service.saved = 1
    /\ service.emitted = NotEmitted
    /\ Len(service.records) = 2
    /\ service.records[2] = [questions |-> "q2", result |-> JsonBody]
    /\ service.listed = <<service.records[1]>>

\* C27: after any sequence of cart calls no two items have the same product
\* id; addItem of a product in the cart adds 1 to the quantity of its item and
\* leaves the other items as they are, and addItem of a product not in the
\* cart appends one item with quantity 1.
C27_OneItemPerProduct ==
    /\ [](\A i \in DOMAIN cart.items, j \in DOMAIN cart.items :
             cart.items[i].id = cart.items[j].id => i = j)
    /\ [][cart'.call.op = "addItem" =>
             IF \E i \in DOMAIN cart.items : cart.items[i].id = cart'.call.id
             THEN /\ Len(cart'.items) = Len(cart.items)
                  /\ \A i \in DOMAIN cart.items :
                        IF cart.items[i].id = cart'.call.id
                        THEN /\ cart'.items[i].quantity = cart.items[i].quantity + 1
                             /\ cart'.items[i].id = cart.items[i].id
                             /\ cart'.items[i].selling_price = cart.items[i].selling_price
                        ELSE cart'.items[i] = cart.items[i]
             ELSE /\ Len(cart'.items) = Len(cart.items) + 1
                  /\ SubSeq(cart'.items, 1, Len(cart.items)) = cart.items
                  /\ cart'.items[Len(cart'.items)].id = cart'.call.id
                  /\ cart'.items[Len(cart'.items)].quantity = 1]_vars

C27_Witness ==
    /\ cart.call = [op |-> "addItem", id |-> 1, quantity |-> 0]
    /\ Len(cart.items) = 2
    /\ cart.items[1] = [id |-> 2, selling_price |-> 5, quantity |-> 0]
    /\ cart.items[2] = [id |-> 1, selling_price |-> 7, quantity |-> 3]

\* C28: after any sequence of cart calls no item has a negative quantity;
\* updateQuantity(id, q) sets the quantity of the item with that id to
\* max(0, q), changes no other item, removes and adds none (an item at 0 stays
\* in the cart) and changes nothing when no item has that id.
C28_QuantityNeverNegative ==
    /\ [](\A i \in DOMAIN cart.items : cart.items[i].quantity >= 0)
    /\ [][cart'.call.op = "updateQuantity" =>
             /\ Len(cart'.items) = Len(cart.items)
             /\ \A i \in DOMAIN cart.items :
                   IF cart.items[i].id = cart'.call.id
                   THEN cart'.items[i]
                          = [cart.items[i] EXCEPT
                               !.quantity = IF cart'.call.quantity > 0
                                            THEN cart'.call.quantity ELSE 0]
                   ELSE cart'.items[i] = cart.items[i]]_vars

C28_Witness ==
    /\ cart.call = [op |-> "updateQuantity", id |-> 2, quantity |-> 0 - 2]
    /\ Len(cart.items) = 2
    /\ cart.items[1] = [id |-> 2, selling_price |-> 7, quantity |-> 0]
    /\ cart.items[2] = [id |-> 1, selling_price |-> 5, quantity |-> 2]

\* The stored role as the rendering component normalizes it before the
\* comparison with allowedRoles (nothing stored reads as the empty text).
NormalizedRole(render) ==
    IF ~render.storage.userRole.stored THEN <<>>
    ELSE IF render.component = "part_013"
         THEN trim(toLowerCase(render.storage.userRole.text))
         ELSE toLowerCase(render.storage.userRole.text)

\* C29: ProtectedRoute renders its child routes only when a token is stored:
\* with no token it redirects to /login whatever role is stored; with a token
\* and a non-empty allowedRoles list it renders the children if the normalized
\* stored role is in the list and redirects to /dashboard otherwise; after
\* handleLogout the storage is clear and every protected route redirects to
\* /login until a login succeeds.
C29_ProtectedRouteNeedsToken ==
    LET render == browser.render
    IN  /\ render.returns # "none" =>
              /\ falsy(render.storage.token) => render.returns = "/login"
              /\ render.returns = "Outlet" => ~falsy(render.storage.token)
              /\ (~falsy(render.storage.token) /\ render.allowedRoles.given
                    /\ render.allowedRoles.list # {}) =>
                    render.returns = IF NormalizedRole(render) \in render.allowedRoles.list
                                     THEN "Outlet" ELSE "/dashboard"
        /\ browser.loggedOut =>
              /\ browser.storage = ClearStorage
              /\ render.returns \in {"none", "/login"}

C29_Witness ==
    /\ browser.loggedOut
    /\ browser.render.component = "ProtectedRoute.tsx"
    /\ browser.render.allowedRoles = [given |-> FALSE, list |-> {}]
    /\ browser.render.returns = "/login"

\* C30: handleLogin changes the stored session only on success: a failed login
\* leaves token and userRole as they were and shows an error; a successful one
\* stores a token and a non-empty userRole ("user" when the response has no
\* role) and goes to /dashboard; in every outcome loading is false again.
C30_SessionStoredOnlyOnSuccess ==
    browser.login.pc = "settled" =>
       /\ browser.loading = FALSE
       /\ IF browser.login.outcome = "rejected"
          THEN /\ browser.storage = browser.login.before
               /\ browser.error # ""
          ELSE /\ ~falsy(browser.storage.token)
               /\ ~falsy(browser.storage.userRole)
               /\ falsy(browser.login.userrole) => browser.storage.userRole = Stored(UserRole)
               /\ browser.location = "/dashboard"
====
